---- MODULE Spec2Model ----
(***************************************************************************)
(* A model of fairops/mlops/autolog.py: the LoggedMetric / LoggedParam     *)
(* records, the LoggedMetrics / LoggedParams nested stores, the            *)
(* MLflowAutoLogger, the LoggerFactory registry and the wrappers installed *)
(* over mlflow.log_param, mlflow.log_metric, mlflow.log_metrics and        *)
(* wandb.log.                                                              *)
(*                                                                         *)
(* Encoding of Python values:                                              *)
(*   None (for int | None and for run ids)  is the integer  None == -1     *)
(*   run ids are integers (101, 102), experiment ids and keys are strings  *)
(*   "None" is None where the other values are strings (experiment ids)    *)
(*   a dict is a sequence of [k, v] records in insertion order             *)
(*   a value handed back to a caller is a tagged record [t, v]             *)
(***************************************************************************)
EXTENDS Integers, Sequences, FiniteSets, TLC

VARIABLES
    mlflow_available,   \* importlib.util.find_spec("mlflow") is not None
    wandb_available,    \* importlib.util.find_spec("wandb") is not None
    active_run,         \* mlflow.active_run(): NoRun or [experiment_id, run_id]
    clock,              \* int(time.time())
    loggers,            \* LoggerFactory._loggers: name -> heap index, 0 = absent
    heap,               \* the logger instances constructed so far
    files,              \* paths base_path/exp/run/results.json that exist
    dirs,               \* directories base_path/exp/run that exist
    artifacts,          \* files uploaded by mlflow.log_artifact, in order
    last,               \* the last call made by the program and its outcome
    nops,               \* number of calls made so far
    threads             \* each thread's position in get_logger and the logger it got

vars == <<mlflow_available, wandb_available, active_run, clock, loggers, heap,
          files, dirs, artifacts, last, nops, threads>>

----------------------------------------------------------------------------
(* Bounds of the model *)

MaxOps == 3
MaxStep == 1
MaxValue == 2
MaxClock == 1
MaxBatch == 2

----------------------------------------------------------------------------
(* Domains of the inputs *)

None == -1

Runs == {101, 102}
Experiments == {"e1", "e2"}
Keys == {"a", "b"}
Names == {"mlflow", "wandb", "other"}
BasePaths == {"out"}
Values == 1..MaxValue
Steps == 0..MaxStep
Times == 0..MaxClock
SyncVals == {"None", "False"}
Methods == {"mean", "max", "min", "median"}

\* the experiment a run belongs to in the tracking backend
RunExperiment(r) == IF r = 101 THEN "e1" ELSE "e2"

NoRun == [experiment_id |-> "None", run_id |-> None]

NoExc == "none"

\* the threads of the program that call LoggerFactory.get_logger
Threads == {1, 2}

\* a thread that is not inside get_logger and holds no logger
IdleThread == [pc |-> "idle", name |-> "None", logger |-> 0]

----------------------------------------------------------------------------
(* Python values handed back to callers *)

PyNone == [t |-> "None", v |-> <<>>]
RunOperations == [t |-> "RunOperations", v |-> <<>>]
PyList(l) == [t |-> "list", v |-> l]
PyDict(d) == [t |-> "dict", v |-> d]
PyObj(o) == [t |-> "LoggedMetric", v |-> o]
PyParam(o) == [t |-> "LoggedParam", v |-> o]
PyNum(n) == [t |-> "number", v |-> n]

----------------------------------------------------------------------------
(* dict: insertion-ordered mapping, a sequence of [k, v] *)

Has(d, k) == \E i \in 1..Len(d) : d[i].k = k

Get(d, k) == d[CHOOSE i \in 1..Len(d) : d[i].k = k].v

\* d[k] = v : an existing key keeps its position, a new key goes last
Put(d, k, v) ==
    IF Has(d, k)
    THEN [i \in 1..Len(d) |-> IF d[i].k = k THEN [k |-> k, v |-> v] ELSE d[i]]
    ELSE Append(d, [k |-> k, v |-> v])

\* defaultdict.__getitem__ as used on the left of a nested assignment:
\* the value of a missing key is the factory's empty container
GetDefault(d, k) == IF Has(d, k) THEN Get(d, k) ELSE <<>>

\* dict.get(k, default)
GetOr(d, k, default) == IF Has(d, k) THEN Get(d, k) ELSE default

----------------------------------------------------------------------------
(* LoggedMetric and LoggedParam *)

\* LoggedMetric.__init__; now is the value time.time() gives
LoggedMetric(key, value, step, timestamp, run_id, experiment_id, now) ==
    IF (experiment_id = "None" \/ run_id = None) /\ active_run = NoRun
    THEN [exc |-> "AttributeError"]
    ELSE [exc |-> NoExc,
          obj |-> [key |-> key,
                   value |-> value,
                   step |-> step,
                   timestamp |-> IF timestamp # None THEN timestamp ELSE now,
                   run_id |-> IF run_id = None THEN active_run.run_id ELSE run_id,
                   experiment_id |-> IF experiment_id = "None"
                                     THEN active_run.experiment_id
                                     ELSE experiment_id]]

\* LoggedParam that takes the ids of the session as they are, active or not
LoggedParam_Unattributed(key, value) ==
    [exc |-> NoExc,
     obj |-> [key |-> key,
              value |-> value,
              run_id |-> active_run.run_id,
              experiment_id |-> active_run.experiment_id]]


\* LoggedParam.__init__: run_id and experiment_id always come from the active run
LoggedParam(key, value) ==
    IF active_run = NoRun
    THEN [exc |-> "AttributeError"]
    ELSE [exc |-> NoExc,
          obj |-> [key |-> key,
                   value |-> value,
                   run_id |-> active_run.run_id,
                   experiment_id |-> active_run.experiment_id]]

----------------------------------------------------------------------------
(* LoggedMetrics: experiment_id -> run_id -> key -> step -> LoggedMetric *)

add_metric(metrics, metric) ==
    LET exp_data == GetDefault(metrics, metric.experiment_id)
        run_data == GetDefault(exp_data, metric.run_id)
        key_metrics == GetDefault(run_data, metric.key)
    IN  Put(metrics, metric.experiment_id,
            Put(exp_data, metric.run_id,
                Put(run_data, metric.key,
                    Put(key_metrics, metric.step, metric))))

\* truth value of an argument in "if x and x in d": a string id or key of the
\* model is never empty, so only None is falsy; a number is falsy when None or 0
TruthyStr(x) == x # "None"

TruthyNum(x) == x # None /\ x # 0

\* defaultdict.__getitem__ in an expression: self.metrics[a], [a][b] and
\* [a][b][c] give a missing key the factory's empty container; the results
\* are the mapping after the subscription
Subscript1(d, a) == Put(d, a, GetDefault(d, a))

Subscript2(d, a, b) == Put(d, a, Subscript1(GetDefault(d, a), b))

Subscript3(d, a, b, c) == Put(d, a, Subscript2(GetDefault(d, a), b, c))

\* the mapping after a lookup that subscripts on the arguments as given,
\* without the "in" tests
lookup_effect_Unguarded(d, experiment_id, run_id, key) ==
    IF TruthyStr(experiment_id)
    THEN IF TruthyNum(run_id)
         THEN IF TruthyStr(key)
              THEN Subscript3(d, experiment_id, run_id, key)
              ELSE Subscript2(d, experiment_id, run_id)
         ELSE Subscript1(d, experiment_id)
    ELSE d

\* self.metrics / self.params after get_metrics / get_params: the subscriptions
\* the two methods evaluate, each behind its "in" test (the innermost step is
\* read with .get)
lookup_effect(d, experiment_id, run_id, key) ==
    IF TruthyStr(experiment_id) /\ Has(d, experiment_id)
    THEN IF TruthyNum(run_id) /\ Has(Get(d, experiment_id), run_id)
         THEN IF TruthyStr(key) /\ Has(Get(Get(d, experiment_id), run_id), key)
              THEN Subscript3(d, experiment_id, run_id, key)
              ELSE Subscript2(d, experiment_id, run_id)
         ELSE Subscript1(d, experiment_id)
    ELSE d


get_metrics(metrics, experiment_id, run_id, key, step) ==
    IF TruthyStr(experiment_id) /\ Has(metrics, experiment_id)
    THEN IF TruthyNum(run_id) /\ Has(Get(metrics, experiment_id), run_id)
         THEN IF TruthyStr(key) /\ Has(Get(Get(metrics, experiment_id), run_id), key)
              THEN IF step # None
                   THEN LET key_metrics ==
                                Get(Get(Get(metrics, experiment_id), run_id), key)
                        IN  IF Has(key_metrics, step)
                            THEN PyObj(Get(key_metrics, step))
                            ELSE PyList(<<>>)
                   ELSE PyDict(Get(Get(Get(metrics, experiment_id), run_id), key))
              ELSE PyDict(Get(Get(metrics, experiment_id), run_id))
         ELSE PyDict(Get(metrics, experiment_id))
    ELSE PyDict(metrics)

\* the comprehension levels of export_to_dict, innermost first
StepItems(key_metrics) ==
    [s \in 1..Len(key_metrics) |->
        [step |-> key_metrics[s].k,
         value |-> key_metrics[s].v.value,
         timestamp |-> key_metrics[s].v.timestamp]]

KeyItems(run_data) ==
    [k \in 1..Len(run_data) |->
        [key |-> run_data[k].k, steps |-> StepItems(run_data[k].v)]]

MetricRunItems(exp_data) ==
    [r \in 1..Len(exp_data) |->
        [run_id |-> exp_data[r].k, metrics |-> KeyItems(exp_data[r].v)]]

LoggedMetrics_export_to_dict(metrics) ==
    [e \in 1..Len(metrics) |->
        [experiment_id |-> metrics[e].k, runs |-> MetricRunItems(metrics[e].v)]]

RECURSIVE SeqSum(_)
SeqSum(s) == IF s = <<>> THEN 0 ELSE Head(s) + SeqSum(Tail(s))

SeqMax(s) == CHOOSE x \in {s[i] : i \in 1..Len(s)} : \A i \in 1..Len(s) : s[i] <= x

SeqMin(s) == CHOOSE x \in {s[i] : i \in 1..Len(s)} : \A i \in 1..Len(s) : x <= s[i]

\* [m.value for m in got]: a LoggedMetric is not iterable (TypeError); a dict
\* iterates over its keys, which have no attribute value (AttributeError)
aggregate(metrics, experiment_id, run_id, key, step, method) ==
    LET got == get_metrics(metrics, experiment_id, run_id, key, step)
        values == IF got.t = "list"
                  THEN [i \in 1..Len(got.v) |-> got.v[i].value]
                  ELSE <<>>
    IN  IF got.t = "LoggedMetric" THEN [ret |-> PyNone, exc |-> "TypeError"]
        ELSE IF got.t = "dict" /\ Len(got.v) > 0
        THEN [ret |-> PyNone, exc |-> "AttributeError"]
        ELSE IF values = <<>> THEN [ret |-> PyNone, exc |-> NoExc]
        ELSE IF method = "mean"
        THEN [ret |-> PyNum(SeqSum(values) \div Len(values)), exc |-> NoExc]
        ELSE IF method = "max" THEN [ret |-> PyNum(SeqMax(values)), exc |-> NoExc]
        ELSE IF method = "min" THEN [ret |-> PyNum(SeqMin(values)), exc |-> NoExc]
        ELSE [ret |-> PyNone, exc |-> "ValueError"]

----------------------------------------------------------------------------
(* LoggedParams: experiment_id -> run_id -> key -> LoggedParam *)

\* add_param that keeps the record already stored at the coordinate
add_param_FirstWriteWins(params, param) ==
    LET exp_data == GetDefault(params, param.experiment_id)
        run_data == GetDefault(exp_data, param.run_id)
    IN  IF Has(run_data, param.key)
        THEN params
        ELSE Put(params, param.experiment_id,
                 Put(exp_data, param.run_id,
                     Put(run_data, param.key, param)))


add_param(params, param) ==
    LET exp_data == GetDefault(params, param.experiment_id)
        run_data == GetDefault(exp_data, param.run_id)
    IN  Put(params, param.experiment_id,
            Put(exp_data, param.run_id,
                Put(run_data, param.key, param)))

get_params(params, experiment_id, run_id, key) ==
    IF TruthyStr(experiment_id) /\ Has(params, experiment_id)
    THEN IF TruthyNum(run_id) /\ Has(Get(params, experiment_id), run_id)
         THEN IF TruthyStr(key) /\ Has(Get(Get(params, experiment_id), run_id), key)
              THEN PyParam(Get(Get(Get(params, experiment_id), run_id), key))
              ELSE PyDict(Get(Get(params, experiment_id), run_id))
         ELSE PyDict(Get(params, experiment_id))
    ELSE PyDict(params)

ParamItems(run_data) ==
    [k \in 1..Len(run_data) |-> [key |-> run_data[k].k, value |-> run_data[k].v.value]]

ParamRunItems(exp_data) ==
    [r \in 1..Len(exp_data) |->
        [run_id |-> exp_data[r].k, parameters |-> ParamItems(exp_data[r].v)]]

LoggedParams_export_to_dict(params) ==
    [e \in 1..Len(params) |->
        [experiment_id |-> params[e].k, runs |-> ParamRunItems(params[e].v)]]

----------------------------------------------------------------------------
(* AutoLogger *)

\* AutoLogger.__init__
MLflowAutoLogger == [cls |-> "MLflowAutoLogger", metrics_store |-> <<>>, param_store |-> <<>>]

RECURSIVE Flatten(_)
Flatten(ss) == IF ss = <<>> THEN <<>> ELSE Head(ss) \o Flatten(Tail(ss))

\* pd.DataFrame(all_metrics): the frame keeps the rows in list order
PyFrame(rows) == [t |-> "DataFrame", v |-> rows]

\* the rows one key contributes, in the order of its steps dict
MetricRows(experiment_id, run_id, key, key_metrics) ==
    [s \in 1..Len(key_metrics) |->
        [experiment_id |-> experiment_id,
         run_id |-> run_id,
         key |-> key,
         step |-> key_metrics[s].k,
         value |-> key_metrics[s].v.value,
         timestamp |-> key_metrics[s].v.timestamp]]

\* the rows of one run: the "for key, key_metrics" and "for step, metric" loops
RunRows(experiment_id, run_id, run_data) ==
    Flatten([k \in 1..Len(run_data) |->
                MetricRows(experiment_id, run_id, run_data[k].k, run_data[k].v)])

\* a frame with one row per key, that of the key's latest step
LoggedMetrics_export_to_dataframe_LatestStep(metrics) ==
    PyFrame(Flatten([e \in 1..Len(metrics) |->
        Flatten([r \in 1..Len(metrics[e].v) |->
            Flatten([k \in 1..Len(metrics[e].v[r].v) |->
                <<MetricRows(metrics[e].k, metrics[e].v[r].k,
                             metrics[e].v[r].v[k].k,
                             metrics[e].v[r].v[k].v)[Len(metrics[e].v[r].v[k].v)]>>])])]))

LoggedMetrics_export_to_dataframe(metrics) ==
    PyFrame(Flatten([e \in 1..Len(metrics) |->
        Flatten([r \in 1..Len(metrics[e].v) |->
            RunRows(metrics[e].k, metrics[e].v[r].k, metrics[e].v[r].v)])]))


\* params_lookup: experiment_id -> run_id -> parameters
params_lookup(params_export) ==
    [e \in 1..Len(params_export) |->
        [k |-> params_export[e].experiment_id,
         v |-> [r \in 1..Len(params_export[e].runs) |->
                  [k |-> params_export[e].runs[r].run_id,
                   v |-> params_export[e].runs[r].parameters]]]]

\* export_logs_to_dict with the parameters of the whole store given to every run
export_logs_to_dict_AllParams(self) ==
    LET all_params == Flatten([e \in 1..Len(self.param_store) |->
                         Flatten([r \in 1..Len(self.param_store[e].v) |->
                             ParamItems(self.param_store[e].v[r].v)])])
        exported == LoggedMetrics_export_to_dict(self.metrics_store)
    IN  Flatten([e \in 1..Len(exported) |->
            [r \in 1..Len(exported[e].runs) |->
                [experiment_id |-> exported[e].experiment_id,
                 run_id |-> exported[e].runs[r].run_id,
                 params |-> all_params,
                 metrics |-> exported[e].runs[r].metrics]]])


export_logs_to_dict(self) ==
    LET lookup == params_lookup(LoggedParams_export_to_dict(self.param_store))
        exported == LoggedMetrics_export_to_dict(self.metrics_store)
    IN  Flatten([e \in 1..Len(exported) |->
            [r \in 1..Len(exported[e].runs) |->
                [experiment_id |-> exported[e].experiment_id,
                 run_id |-> exported[e].runs[r].run_id,
                 params |-> GetOr(GetOr(lookup, exported[e].experiment_id, <<>>),
                                  exported[e].runs[r].run_id, <<>>),
                 metrics |-> exported[e].runs[r].metrics]]])

----------------------------------------------------------------------------
(* The tracking backend, as the program sees it *)

\* what a call of an original mlflow function can do: return None, return a
\* RunOperations handle (synchronous=False), or raise
OrigOutcomes ==
    {[ret |-> PyNone, exc |-> NoExc],
     [ret |-> RunOperations, exc |-> NoExc],
     [ret |-> PyNone, exc |-> "MlflowException"]}

\* one entry of the trace of a call: a function the handler invoked
Event(f, args, out) == [f |-> f, args |-> args, ret |-> out.ret, exc |-> out.exc]

Done == [ret |-> PyNone, exc |-> NoExc]

----------------------------------------------------------------------------
(* MLflowAutoLogger; H is the heap, self the index of the logger in it *)

log_param(H, self, key, value, synchronous, out) ==
    IF ~mlflow_available
    THEN [heap |-> H, trace |-> <<>>, ret |-> PyNone, exc |-> NoExc]
    ELSE LET ev == Event("original_mlflow_log_param", <<key, value, synchronous>>, out)
             param == LoggedParam(key, value)
         IN  IF out.exc # NoExc
             THEN [heap |-> H, trace |-> <<ev>>, ret |-> PyNone, exc |-> out.exc]
             ELSE IF param.exc # NoExc
             THEN [heap |-> H, trace |-> <<ev>>, ret |-> PyNone, exc |-> param.exc]
             ELSE [heap |-> [H EXCEPT ![self].param_store = add_param(@, param.obj)],
                   trace |-> <<ev, Event("add_param", <<param.obj>>, Done)>>,
                   ret |-> out.ret,
                   exc |-> NoExc]

\* log_metric with the record stored before the backend is called
log_metric_RecordFirst(H, self, key, value, step, synchronous, timestamp, run_id, out) ==
    LET ev == Event("original_mlflow_log_metric",
                    <<key, value, step, synchronous, timestamp, run_id>>, out)
        metric == LoggedMetric(key, value, step, timestamp, run_id, "None", clock)
    IN  IF metric.exc # NoExc
        THEN [heap |-> H, trace |-> <<>>, ret |-> PyNone, exc |-> metric.exc]
        ELSE [heap |-> [H EXCEPT ![self].metrics_store = add_metric(@, metric.obj)],
              trace |-> <<Event("add_metric", <<metric.obj>>, Done), ev>>,
              ret |-> out.ret,
              exc |-> out.exc]

log_metric(H, self, key, value, step, synchronous, timestamp, run_id, out) ==
    IF ~mlflow_available
    THEN [heap |-> H, trace |-> <<>>, ret |-> PyNone, exc |-> NoExc]
    ELSE LET ev == Event("original_mlflow_log_metric",
                         <<key, value, step, synchronous, timestamp, run_id>>, out)
             metric == LoggedMetric(key, value, step, timestamp, run_id, "None", clock)
         IN  IF out.exc # NoExc
             THEN [heap |-> H, trace |-> <<ev>>, ret |-> PyNone, exc |-> out.exc]
             ELSE IF metric.exc # NoExc
             THEN [heap |-> H, trace |-> <<ev>>, ret |-> PyNone, exc |-> metric.exc]
             ELSE [heap |-> [H EXCEPT ![self].metrics_store = add_metric(@, metric.obj)],
                   trace |-> <<ev, Event("add_metric", <<metric.obj>>, Done)>>,
                   ret |-> out.ret,
                   exc |-> NoExc]

\* the loop "for k, v in metrics.items()" from entry i on; nows[i] is the clock
\* when the i-th LoggedMetric is constructed
RECURSIVE record_all(_, _, _, _, _, _, _, _)
record_all(store, trace, metrics, i, step, timestamp, run_id, nows) ==
    IF i > Len(metrics)
    THEN [store |-> store, trace |-> trace, exc |-> NoExc]
    ELSE LET metric == LoggedMetric(metrics[i].k, metrics[i].v, step, timestamp,
                                    run_id, "None", nows[i])
         IN  IF metric.exc # NoExc
             THEN [store |-> store, trace |-> trace, exc |-> metric.exc]
             ELSE record_all(add_metric(store, metric.obj),
                             Append(trace, Event("add_metric", <<metric.obj>>, Done)),
                             metrics, i + 1, step, timestamp, run_id, nows)

log_metrics(H, self, metrics, step, synchronous, run_id, timestamp, out, nows) ==
    IF ~mlflow_available
    THEN [heap |-> H, trace |-> <<>>, ret |-> PyNone, exc |-> NoExc]
    ELSE LET ev == Event("original_mlflow_log_metrics",
                         <<metrics, step, synchronous, run_id, timestamp>>, out)
             rec == record_all(H[self].metrics_store, <<ev>>, metrics, 1,
                               step, timestamp, run_id, nows)
         IN  IF out.exc # NoExc
             THEN [heap |-> H, trace |-> <<ev>>, ret |-> PyNone, exc |-> out.exc]
             ELSE [heap |-> [H EXCEPT ![self].metrics_store = rec.store],
                   trace |-> rec.trace,
                   ret |-> IF rec.exc = NoExc THEN out.ret ELSE PyNone,
                   exc |-> rec.exc]

----------------------------------------------------------------------------
(* LoggerFactory *)

\* get_logger without the "name not in _loggers" test
get_logger_AlwaysConstructs(name, L, H) ==
    IF name = "mlflow" /\ mlflow_available
    THEN [loggers |-> [L EXCEPT ![name] = Len(H) + 1],
          heap |-> Append(H, MLflowAutoLogger),
          ret |-> Len(H) + 1,
          exc |-> NoExc]
    ELSE IF name = "wandb" /\ wandb_available
    THEN [loggers |-> L, heap |-> H, ret |-> 0, exc |-> "TypeError"]
    ELSE [loggers |-> L, heap |-> H, ret |-> 0, exc |-> NoExc]

\* WandbAutoLogger leaves export_logs_as_artifact, log_param and log_metrics
\* abstract, so WandbAutoLogger() raises TypeError and nothing is registered
get_logger(name, L, H) ==
    IF L[name] = 0
    THEN IF name = "mlflow" /\ mlflow_available
         THEN [loggers |-> [L EXCEPT ![name] = Len(H) + 1],
               heap |-> Append(H, MLflowAutoLogger),
               ret |-> Len(H) + 1,
               exc |-> NoExc]
         ELSE IF name = "wandb" /\ wandb_available
         THEN [loggers |-> L, heap |-> H, ret |-> 0, exc |-> "TypeError"]
         ELSE [loggers |-> L, heap |-> H, ret |-> 0, exc |-> NoExc]
    ELSE [loggers |-> L, heap |-> H, ret |-> L[name], exc |-> NoExc]

\* a reference to a logger, or None
PyLogger(i) == IF i = 0 THEN PyNone ELSE [t |-> "logger", v |-> i]

----------------------------------------------------------------------------
(* The state after the module is imported *)

Call(op, args, trace, ret, exc) ==
    [op |-> op, args |-> args, trace |-> trace, ret |-> ret, exc |-> exc]

Init ==
    /\ mlflow_available \in BOOLEAN
    /\ wandb_available \in BOOLEAN
    /\ active_run = NoRun
    /\ clock = 0
    /\ loggers = [n \in Names |-> 0]
    /\ heap = <<>>
    /\ files = {}
    /\ dirs = {}
    /\ artifacts = <<>>
    /\ last = Call("import", <<>>, <<>>, PyNone, NoExc)
    /\ nops = 0
    /\ threads = [t \in Threads |-> IdleThread]

----------------------------------------------------------------------------
(* The environment: the tracking session and the wall clock *)

\* with mlflow.start_run()
StartRun(r) ==
    /\ mlflow_available
    /\ active_run = NoRun
    /\ active_run' = [experiment_id |-> RunExperiment(r), run_id |-> r]
    /\ UNCHANGED <<threads, mlflow_available, wandb_available, clock, loggers, heap,
                   files, dirs, artifacts, last, nops>>

EndRun ==
    /\ active_run # NoRun
    /\ active_run' = NoRun
    /\ UNCHANGED <<threads, mlflow_available, wandb_available, clock, loggers, heap,
                   files, dirs, artifacts, last, nops>>

Tick ==
    /\ clock < MaxClock
    /\ clock' = clock + 1
    /\ UNCHANGED <<threads, mlflow_available, wandb_available, active_run, loggers, heap,
                   files, dirs, artifacts, last, nops>>

----------------------------------------------------------------------------
(* The intercepted entry points *)

\* mlflow.log_param(key, value, synchronous)
mlflow_log_param_wrapper(key, value, synchronous, out) ==
    /\ mlflow_available
    /\ nops < MaxOps
    /\ LET g == get_logger("mlflow", loggers, heap)
           r == IF g.ret # 0
                THEN log_param(g.heap, g.ret, key, value, synchronous, out)
                ELSE [heap |-> g.heap, trace |-> <<>>, ret |-> PyNone, exc |-> NoExc]
       IN  /\ loggers' = g.loggers
           /\ heap' = r.heap
           /\ last' = Call("mlflow.log_param", <<key, value, synchronous>>,
                           r.trace, PyNone, r.exc)
    /\ nops' = nops + 1
    /\ UNCHANGED <<threads, mlflow_available, wandb_available, active_run, clock,
                   files, dirs, artifacts>>

\* mlflow.log_metric(key, value, step, synchronous, timestamp, run_id)
mlflow_log_metric_wrapper(key, value, step, synchronous, timestamp, run_id, out) ==
    /\ mlflow_available
    /\ nops < MaxOps
    /\ LET g == get_logger("mlflow", loggers, heap)
           r == IF g.ret # 0
                THEN log_metric(g.heap, g.ret, key, value, step, synchronous,
                                timestamp, run_id, out)
                ELSE [heap |-> g.heap, trace |-> <<>>, ret |-> PyNone, exc |-> NoExc]
       IN  /\ loggers' = g.loggers
           /\ heap' = r.heap
           /\ last' = Call("mlflow.log_metric",
                           <<key, value, step, synchronous, timestamp, run_id>>,
                           r.trace, PyNone, r.exc)
    /\ nops' = nops + 1
    /\ UNCHANGED <<threads, mlflow_available, wandb_available, active_run, clock,
                   files, dirs, artifacts>>

\* the clock readings of a call that constructs n records, the clock free to
\* advance between two of them
NowSeqs(n) ==
    {s \in [1..n -> clock..MaxClock] : \A i \in 1..n : \A j \in i..n : s[i] <= s[j]}

\* mlflow.log_metrics(metrics, step, synchronous, run_id, timestamp); the
\* wrapper hands timestamp and run_id to the logger in each other's position
mlflow_log_metrics_wrapper(metrics, step, synchronous, run_id, timestamp, out, nows) ==
    /\ mlflow_available
    /\ nops < MaxOps
    /\ nows \in NowSeqs(Len(metrics))
    /\ LET g == get_logger("mlflow", loggers, heap)
           r == IF g.ret # 0
                THEN log_metrics(g.heap, g.ret, metrics, step, synchronous,
                                 timestamp, run_id, out, nows)
                ELSE [heap |-> g.heap, trace |-> <<>>, ret |-> PyNone, exc |-> NoExc]
       IN  /\ loggers' = g.loggers
           /\ heap' = r.heap
           /\ last' = Call("mlflow.log_metrics",
                           <<metrics, step, synchronous, run_id, timestamp>>,
                           r.trace, PyNone, r.exc)
           /\ clock' = IF Len(r.trace) > 1 THEN nows[Len(r.trace) - 1] ELSE clock
    /\ nops' = nops + 1
    /\ UNCHANGED <<threads, mlflow_available, wandb_available, active_run,
                   files, dirs, artifacts>>

\* WandbAutoLogger.log_metric
wandb_log_metric(key, value) == [ret |-> PyNone, exc |-> "NotImplementedError"]

\* wandb.log(data): a registered logger would raise NotImplementedError on the
\* first entry of data
wandb_log_wrapper(data) ==
    /\ wandb_available
    /\ nops < MaxOps
    /\ LET g == get_logger("wandb", loggers, heap)
           exc == IF g.exc # NoExc THEN g.exc
                  ELSE IF g.ret # 0 /\ Len(data) > 0
                  THEN wandb_log_metric(data[1].k, data[1].v).exc
                  ELSE NoExc
       IN  /\ loggers' = g.loggers
           /\ heap' = g.heap
           /\ last' = Call("wandb.log", <<data>>, <<>>, PyNone, exc)
    /\ nops' = nops + 1
    /\ UNCHANGED <<threads, mlflow_available, wandb_available, active_run, clock,
                   files, dirs, artifacts>>

\* get_logger falling through to "return LoggerFactory._loggers[name]" for a
\* name it did not register
GetLogger_FallsThrough(name) ==
    /\ nops < MaxOps
    /\ LET g == get_logger(name, loggers, heap)
       IN  /\ loggers' = g.loggers
           /\ heap' = g.heap
           /\ last' = Call("get_logger", <<name>>, <<>>, PyLogger(g.ret),
                           IF g.ret = 0 /\ g.exc = NoExc THEN "KeyError" ELSE g.exc)
    /\ nops' = nops + 1
    /\ UNCHANGED <<threads, mlflow_available, wandb_available, active_run, clock,
                   files, dirs, artifacts>>

\* LoggerFactory.get_logger(name) called by the program
GetLogger(name) ==
    /\ nops < MaxOps
    /\ LET g == get_logger(name, loggers, heap)
       IN  /\ loggers' = g.loggers
           /\ heap' = g.heap
           /\ last' = Call("get_logger", <<name>>, <<>>, PyLogger(g.ret), g.exc)
    /\ nops' = nops + 1
    /\ UNCHANGED <<threads, mlflow_available, wandb_available, active_run, clock,
                   files, dirs, artifacts>>

----------------------------------------------------------------------------
(* MLflowAutoLogger.export_logs_as_artifact *)

UploadOutcomes == {Done, [ret |-> PyNone, exc |-> "MlflowException"]}

\* next(log for log in logs if ...), None when no log matches
run_logs_of(logs, experiment_id, run_id) ==
    LET hits == {i \in 1..Len(logs) : /\ logs[i].experiment_id = experiment_id
                                       /\ logs[i].run_id = run_id}
    IN  IF hits = {} THEN <<>>
        ELSE <<logs[CHOOSE i \in hits : \A j \in hits : i <= j]>>

\* the path base_path/experiment_id/run_id
LogPath(base_path, experiment_id, run_id) == <<base_path, experiment_id, run_id>>

\* export_logs_as_artifact without the os.remove after the upload
export_logs_as_artifact_KeepsFile(self, base_path, upload) ==
    LET same == [files |-> files, dirs |-> dirs, artifacts |-> artifacts]
        log_path == LogPath(base_path, active_run.experiment_id, active_run.run_id)
        run_logs == run_logs_of(export_logs_to_dict(self),
                                active_run.experiment_id, active_run.run_id)
        written == Event("json.dump", <<log_path>>, Done)
        uploaded == Event("mlflow.log_artifact", <<log_path>>, upload)
    IN  IF active_run = NoRun
        THEN [fs |-> same, trace |-> <<>>, exc |-> "AttributeError"]
        ELSE IF log_path \in files
        THEN [fs |-> [same EXCEPT !.dirs = dirs \cup {log_path}],
              trace |-> <<>>, exc |-> "Exception"]
        ELSE IF run_logs = <<>>
        THEN [fs |-> [same EXCEPT !.dirs = dirs \cup {log_path}],
              trace |-> <<>>, exc |-> NoExc]
        ELSE IF upload.exc # NoExc
        THEN [fs |-> [same EXCEPT !.dirs = dirs \cup {log_path},
                                  !.files = files \cup {log_path}],
              trace |-> <<written, uploaded>>, exc |-> upload.exc]
        ELSE [fs |-> [same EXCEPT !.dirs = dirs \cup {log_path},
                                  !.files = files \cup {log_path},
                                  !.artifacts = Append(artifacts,
                                        [run_id |-> active_run.run_id,
                                         logs |-> run_logs[1]])],
              trace |-> <<written, uploaded>>, exc |-> NoExc]

export_logs_as_artifact(self, base_path, upload) ==
    LET same == [files |-> files, dirs |-> dirs, artifacts |-> artifacts]
        log_path == LogPath(base_path, active_run.experiment_id, active_run.run_id)
        run_logs == run_logs_of(export_logs_to_dict(self),
                                active_run.experiment_id, active_run.run_id)
        written == Event("json.dump", <<log_path>>, Done)
        uploaded == Event("mlflow.log_artifact", <<log_path>>, upload)
        removed == Event("os.remove", <<log_path>>, Done)
    IN  IF active_run = NoRun
        THEN [fs |-> same, trace |-> <<>>, exc |-> "AttributeError"]
        ELSE IF log_path \in files
        THEN [fs |-> [same EXCEPT !.dirs = dirs \cup {log_path}],
              trace |-> <<>>, exc |-> "Exception"]
        ELSE IF run_logs = <<>>
        THEN [fs |-> [same EXCEPT !.dirs = dirs \cup {log_path}],
              trace |-> <<>>, exc |-> NoExc]
        ELSE IF upload.exc # NoExc
        THEN [fs |-> [same EXCEPT !.dirs = dirs \cup {log_path},
                                  !.files = files \cup {log_path}],
              trace |-> <<written, uploaded>>, exc |-> upload.exc]
        ELSE [fs |-> [same EXCEPT !.dirs = dirs \cup {log_path},
                                  !.files = (files \cup {log_path}) \ {log_path},
                                  !.artifacts = Append(artifacts,
                                        [run_id |-> active_run.run_id,
                                         logs |-> run_logs[1]])],
              trace |-> <<written, uploaded, removed>>, exc |-> NoExc]

\* ml_logger.export_logs_as_artifact(base_path) called by the program
ExportLogsAsArtifact(base_path, upload) ==
    /\ loggers["mlflow"] # 0
    /\ nops < MaxOps
    /\ LET r == export_logs_as_artifact(heap[loggers["mlflow"]], base_path, upload)
       IN  /\ files' = r.fs.files
           /\ dirs' = r.fs.dirs
           /\ artifacts' = r.fs.artifacts
           /\ last' = Call("export_logs_as_artifact",
                           <<base_path, active_run.experiment_id, active_run.run_id>>,
                           r.trace, PyNone, r.exc)
    /\ nops' = nops + 1
    /\ UNCHANGED <<threads, mlflow_available, wandb_available, active_run, clock,
                   loggers, heap>>

----------------------------------------------------------------------------
(* Calls on the stores of the registered mlflow logger *)

TheLogger == heap[loggers["mlflow"]]

GetMetrics(experiment_id, run_id, key, step) ==
    /\ loggers["mlflow"] # 0
    /\ nops < MaxOps
    /\ last' = Call("get_metrics", <<experiment_id, run_id, key, step>>, <<>>,
                    get_metrics(TheLogger.metrics_store, experiment_id, run_id,
                                key, step),
                    NoExc)
    /\ heap' = [heap EXCEPT ![loggers["mlflow"]].metrics_store =
                        lookup_effect(@, experiment_id, run_id, key)]
    /\ nops' = nops + 1
    /\ UNCHANGED <<threads, mlflow_available, wandb_available, active_run, clock, loggers,
                   files, dirs, artifacts>>

GetParams(experiment_id, run_id, key) ==
    /\ loggers["mlflow"] # 0
    /\ nops < MaxOps
    /\ last' = Call("get_params", <<experiment_id, run_id, key>>, <<>>,
                    get_params(TheLogger.param_store, experiment_id, run_id, key),
                    NoExc)
    /\ heap' = [heap EXCEPT ![loggers["mlflow"]].param_store =
                        lookup_effect(@, experiment_id, run_id, key)]
    /\ nops' = nops + 1
    /\ UNCHANGED <<threads, mlflow_available, wandb_available, active_run, clock, loggers,
                   files, dirs, artifacts>>

Aggregate(experiment_id, run_id, key, step, method) ==
    /\ loggers["mlflow"] # 0
    /\ nops < MaxOps
    /\ LET r == aggregate(TheLogger.metrics_store, experiment_id, run_id, key,
                          step, method)
       IN  last' = Call("aggregate", <<experiment_id, run_id, key, step, method>>,
                        <<>>, r.ret, r.exc)
    /\ heap' = [heap EXCEPT ![loggers["mlflow"]].metrics_store =
                        lookup_effect(@, experiment_id, run_id, key)]
    /\ nops' = nops + 1
    /\ UNCHANGED <<threads, mlflow_available, wandb_available, active_run, clock, loggers,
                   files, dirs, artifacts>>

ExportToDict ==
    /\ loggers["mlflow"] # 0
    /\ nops < MaxOps
    /\ last' = Call("export_to_dict", <<>>, <<>>,
                    PyList(LoggedMetrics_export_to_dict(TheLogger.metrics_store)),
                    NoExc)
    /\ nops' = nops + 1
    /\ UNCHANGED <<threads, mlflow_available, wandb_available, active_run, clock, loggers,
                   heap, files, dirs, artifacts>>

ExportToDataframe ==
    /\ loggers["mlflow"] # 0
    /\ nops < MaxOps
    /\ last' = Call("export_to_dataframe", <<>>, <<>>,
                    LoggedMetrics_export_to_dataframe(TheLogger.metrics_store),
                    NoExc)
    /\ nops' = nops + 1
    /\ UNCHANGED <<threads, mlflow_available, wandb_available, active_run, clock, loggers,
                   heap, files, dirs, artifacts>>

ExportLogsToDict ==
    /\ loggers["mlflow"] # 0
    /\ nops < MaxOps
    /\ last' = Call("export_logs_to_dict", <<>>, <<>>,
                    PyList(export_logs_to_dict(TheLogger)), NoExc)
    /\ nops' = nops + 1
    /\ UNCHANGED <<threads, mlflow_available, wandb_available, active_run, clock, loggers,
                   heap, files, dirs, artifacts>>

ExportParamsToDict ==
    /\ loggers["mlflow"] # 0
    /\ nops < MaxOps
    /\ last' = Call("params.export_to_dict", <<>>, <<>>,
                    PyList(LoggedParams_export_to_dict(TheLogger.param_store)),
                    NoExc)
    /\ nops' = nops + 1
    /\ UNCHANGED <<threads, mlflow_available, wandb_available, active_run, clock, loggers,
                   heap, files, dirs, artifacts>>

----------------------------------------------------------------------------
(* LoggerFactory.get_logger run by threads: a thread can be suspended between
   any two of its statements *)

\* thread t calls LoggerFactory.get_logger(name)
ThreadGetLogger(t, name) ==
    /\ threads[t].pc \in {"idle", "done"}
    /\ nops < MaxOps
    /\ threads' = [threads EXCEPT ![t] = [pc |-> "check", name |-> name, logger |-> 0]]
    /\ nops' = nops + 1
    /\ UNCHANGED <<mlflow_available, wandb_available, active_run, clock, loggers,
                   heap, files, dirs, artifacts, last>>

\* "if name not in LoggerFactory._loggers" and the tests of the backend; for
\* an unavailable name the thread returns None
ThreadCheck(t) ==
    /\ threads[t].pc = "check"
    /\ LET name == threads[t].name
       IN  IF loggers[name] # 0
           THEN /\ threads' = [threads EXCEPT ![t].pc = "return"]
                /\ UNCHANGED last
           ELSE IF name = "mlflow" /\ mlflow_available
           THEN /\ threads' = [threads EXCEPT ![t].pc = "insert"]
                /\ UNCHANGED last
           ELSE /\ threads' = [threads EXCEPT ![t].pc = "done"]
                /\ last' = Call("get_logger", <<name>>, <<>>, PyNone, NoExc)
    /\ UNCHANGED <<mlflow_available, wandb_available, active_run, clock, loggers,
                   heap, files, dirs, artifacts, nops>>

\* "LoggerFactory._loggers[name] = MLflowAutoLogger()"
ThreadInsert(t) ==
    /\ threads[t].pc = "insert"
    /\ heap' = Append(heap, MLflowAutoLogger)
    /\ loggers' = [loggers EXCEPT ![threads[t].name] = Len(heap) + 1]
    /\ threads' = [threads EXCEPT ![t].pc = "return"]
    /\ UNCHANGED <<mlflow_available, wandb_available, active_run, clock,
                   files, dirs, artifacts, last, nops>>

\* "return LoggerFactory._loggers[name]"
ThreadReturn(t) ==
    /\ threads[t].pc = "return"
    /\ threads' = [threads EXCEPT ![t].pc = "done",
                                  ![t].logger = loggers[threads[t].name]]
    /\ last' = Call("get_logger", <<threads[t].name>>, <<>>,
                    PyLogger(loggers[threads[t].name]), NoExc)
    /\ UNCHANGED <<mlflow_available, wandb_available, active_run, clock, loggers,
                   heap, files, dirs, artifacts, nops>>

\* thread t logs through the logger it got: logger.log_metric(key, value, step)
ThreadLogMetric(t, key, value, step) ==
    /\ threads[t].pc = "done"
    /\ threads[t].logger # 0
    /\ nops < MaxOps
    /\ LET r == log_metric(heap, threads[t].logger, key, value, step, "None",
                           None, None, Done)
       IN  /\ heap' = r.heap
           /\ last' = Call("logger.log_metric", <<key, value, step>>, r.trace,
                           r.ret, r.exc)
    /\ nops' = nops + 1
    /\ UNCHANGED <<mlflow_available, wandb_available, active_run, clock, loggers,
                   files, dirs, artifacts, threads>>

----------------------------------------------------------------------------
(* Specifications *)

OptRuns == Runs \cup {None}
OptSteps == Steps \cup {None}
OptTimes == Times \cup {None}
OptKeys == Keys \cup {"None"}
OptExperiments == Experiments \cup {"None"}

\* the dicts a log_metrics call is given: up to MaxBatch entries, distinct keys
MetricDicts ==
    {d \in UNION {[1..n -> [k : Keys, v : Values]] : n \in 0..MaxBatch} :
        \A i \in 1..Len(d) : \A j \in 1..Len(d) : d[i].k = d[j].k => i = j}

\* the dicts given to log_metrics and wandb.log in the interception runs
BatchDicts == {d \in MetricDicts : \A i \in 1..Len(d) : d[i].v = i /\ (i = 1 => d[i].k = "a")}

\* the interception layer and the registry
Next ==
    \/ StartRun(101)
    \/ EndRun
    \/ Tick
    \/ \E n \in Names : GetLogger(n)
    \/ \E out \in OrigOutcomes : mlflow_log_param_wrapper("a", 1, "None", out)
    \/ \E sy \in SyncVals, out \in OrigOutcomes :
            mlflow_log_metric_wrapper("a", 1, None, sy, None, None, out)
    \/ \E d \in BatchDicts, out \in OrigOutcomes :
            \E nows \in NowSeqs(Len(d)) :
                mlflow_log_metrics_wrapper(d, None, "None", None, None, out, nows)
    \/ \E d \in BatchDicts : wandb_log_wrapper(d)

Spec == Init /\ [][Next]_vars

\* the stores of the mlflow logger, written through mlflow.log_metric and
\* mlflow.log_param and read back
NextStore ==
    \/ StartRun(101)
    \/ EndRun
    \/ \E k \in Keys, v \in Values, s \in OptSteps :
            mlflow_log_metric_wrapper(k, v, s, "None", None, None, Done)
    \/ \E v \in Values : mlflow_log_param_wrapper("a", v, "None", Done)
    \/ \E e \in OptExperiments, r \in OptRuns, k \in OptKeys, s \in OptSteps :
            GetMetrics(e, r, k, s)
    \/ \E e \in OptExperiments, r \in OptRuns, k \in OptKeys : GetParams(e, r, k)
    \/ \E e \in Experiments, r \in Runs, k \in Keys, s \in OptSteps, m \in Methods :
            Aggregate(e, r, k, s, m)
    \/ ExportToDict

SpecStore == Init /\ [][NextStore]_vars

\* the export of the active run as an artifact
NextExport ==
    \/ \E r \in Runs : StartRun(r)
    \/ EndRun
    \/ \E k \in Keys, v \in Values :
            mlflow_log_metric_wrapper(k, v, None, "None", None, None, Done)
    \/ \E v \in Values : mlflow_log_param_wrapper("a", v, "None", Done)
    \/ \E b \in BasePaths, up \in UploadOutcomes : ExportLogsAsArtifact(b, up)

SpecExport == Init /\ [][NextExport]_vars

\* the two tabular views of the metric store
NextTables ==
    \/ \E r \in Runs : StartRun(r)
    \/ EndRun
    \/ \E k \in Keys, s \in OptSteps :
            mlflow_log_metric_wrapper(k, 1, s, "None", None, None, Done)
    \/ \E d \in BatchDicts :
            mlflow_log_metrics_wrapper(d, 0, "None", None, None, Done,
                                       [i \in 1..Len(d) |-> clock])
    \/ ExportToDict
    \/ ExportToDataframe

SpecTables == Init /\ [][NextTables]_vars

\* entry points called with an explicit run_id and timestamp
NextArgs ==
    \/ \E r \in Runs : StartRun(r)
    \/ EndRun
    \/ \E t \in OptTimes, r \in OptRuns :
            mlflow_log_metric_wrapper("a", 1, 0, "None", t, r, Done)
    \/ \E d \in {b \in BatchDicts : Len(b) = 1}, r \in OptRuns, t \in OptTimes :
            mlflow_log_metrics_wrapper(d, 0, "None", r, t, Done,
                                       [i \in 1..Len(d) |-> clock])

SpecArgs == Init /\ [][NextArgs]_vars

\* the combined export of metrics and parameters
NextJoin ==
    \/ \E r \in Runs : StartRun(r)
    \/ EndRun
    \/ \E k \in Keys, v \in Values : mlflow_log_param_wrapper(k, v, "None", Done)
    \/ \E v \in Values :
            mlflow_log_metric_wrapper("a", v, None, "None", None, None, Done)
    \/ ExportLogsToDict

SpecJoin == Init /\ [][NextJoin]_vars

\* the parameter store
NextParams ==
    \/ \E r \in Runs : StartRun(r)
    \/ EndRun
    \/ \E k \in Keys, v \in Values : mlflow_log_param_wrapper(k, v, "None", Done)
    \/ \E e \in Experiments, r \in Runs, k \in Keys : GetParams(e, r, k)
    \/ ExportParamsToDict

SpecParams == Init /\ [][NextParams]_vars

\* reads of the stores of a logger that holds a few records
NextReads ==
    \/ StartRun(101)
    \/ mlflow_log_metric_wrapper("a", 1, 0, "None", None, None, Done)
    \/ mlflow_log_param_wrapper("a", 1, "None", Done)
    \/ \E e \in OptExperiments, r \in OptRuns, k \in OptKeys, s \in OptSteps :
            GetMetrics(e, r, k, s)
    \/ \E e \in OptExperiments, r \in OptRuns, k \in OptKeys : GetParams(e, r, k)
    \/ \E e \in Experiments, r \in Runs, k \in Keys, s \in Steps, m \in Methods :
            Aggregate(e, r, k, s, m)
    \/ ExportToDict
    \/ ExportToDataframe
    \/ ExportLogsToDict
    \/ ExportParamsToDict

SpecReads == Init /\ [][NextReads]_vars

\* get_logger called from two threads
NextThreads ==
    \/ StartRun(101)
    \/ \E t \in Threads : ThreadGetLogger(t, "mlflow")
    \/ \E t \in Threads : ThreadCheck(t)
    \/ \E t \in Threads : ThreadInsert(t)
    \/ \E t \in Threads : ThreadReturn(t)
    \/ \E t \in Threads, v \in Values : ThreadLogMetric(t, "a", v, 0)

SpecThreads == Init /\ [][NextThreads]_vars

----------------------------------------------------------------------------
(* Vocabulary of the properties *)

Originals == {"original_mlflow_log_param", "original_mlflow_log_metric",
              "original_mlflow_log_metrics", "original_wandb_log"}

MlflowEntryPoints == {"mlflow.log_param", "mlflow.log_metric", "mlflow.log_metrics"}

EntryPoints == MlflowEntryPoints \cup {"wandb.log"}

\* positions in the trace of a call where an original backend function runs
OrigCalls(call) == {i \in 1..Len(call.trace) : call.trace[i].f \in Originals}

\* positions where a record is added to a store
AddCalls(call) == {i \in 1..Len(call.trace) : call.trace[i].f \in {"add_metric", "add_param"}}

\* the stores the program can read: those of the registered mlflow logger
CurrentStores ==
    IF loggers["mlflow"] = 0
    THEN [metrics_store |-> <<>>, param_store |-> <<>>]
    ELSE [metrics_store |-> TheLogger.metrics_store,
          param_store |-> TheLogger.param_store]

\* a step in which the program makes a call
NewCall == nops' = nops + 1

----------------------------------------------------------------------------
(* Properties of the interception layer and the registry, under Spec *)

\* C2: a call through mlflow.log_param, mlflow.log_metric or mlflow.log_metrics
\* that returns gives its caller the value the original backend function
\* returned for that call.
C2_WrapperReturnsOriginalResult ==
    (last.op \in MlflowEntryPoints /\ last.exc = NoExc) =>
        \A i \in OrigCalls(last) : last.ret = last.trace[i].ret

\* C3: every call through an intercepted entry point of an available backend
\* (mlflow.log_param, mlflow.log_metric, mlflow.log_metrics, wandb.log) runs
\* the original backend function exactly once, and before any record is added.
C3_OriginalOnceBeforeRecording ==
    last.op \in EntryPoints =>
        /\ Cardinality(OrigCalls(last)) = 1
        /\ \A i \in OrigCalls(last) : \A j \in AddCalls(last) : i < j

\* C4: when the original backend function raises during log_param, log_metric
\* or log_metrics, the caller of the entry point gets that same exception and
\* the call leaves the metric store and the parameter store as they were.
C4_BackendFailurePropagates ==
    [][(NewCall /\ last'.op \in MlflowEntryPoints) =>
          \A i \in OrigCalls(last') :
              last'.trace[i].exc # NoExc =>
                  /\ last'.exc = last'.trace[i].exc
                  /\ CurrentStores' = CurrentStores]_vars

\* C4 witness: the backend raised in a call made while the stores held records
C4_Witness ==
    /\ last.op \in MlflowEntryPoints
    /\ \E i \in OrigCalls(last) : last.trace[i].exc = "MlflowException"
    /\ last.exc = "MlflowException"
    /\ CurrentStores.metrics_store # <<>>
    /\ CurrentStores.param_store # <<>>

\* C5: a registered name keeps its logger instance for ever: get_logger(name)
\* returns the instance registered for name, an entry is never removed or
\* replaced, and no two instances are ever constructed for one name.
C5_RegistryIdentityStable ==
    /\ [](Len(heap) = Cardinality({n \in Names : loggers[n] # 0}))
    /\ [](\A n \in Names : loggers[n] # 0 => loggers[n] \in 1..Len(heap))
    /\ [][/\ \A n \in Names : loggers[n] # 0 => loggers'[n] = loggers[n]
          /\ (NewCall /\ last'.op = "get_logger" /\ loggers[last'.args[1]] # 0) =>
                (last'.ret.t = "logger" /\ last'.ret.v = loggers[last'.args[1]])]_vars

\* C5 witness: get_logger returns the logger that earlier logging calls filled
C5_Witness ==
    /\ last.op = "get_logger"
    /\ last.ret.t = "logger"
    /\ nops >= 3
    /\ CurrentStores.metrics_store # <<>>

----------------------------------------------------------------------------
(* Properties of the stores, under SpecStore *)

Addresses == Experiments \X Runs \X Keys \X OptSteps

\* what get_metrics gives at an address of the registered logger's store
Retrieve(a) == get_metrics(CurrentStores.metrics_store, a[1], a[2], a[3], a[4])

\* the address holds a record: the four coordinates are keys of the four levels
Holds(metrics, a) ==
    /\ Has(metrics, a[1])
    /\ Has(Get(metrics, a[1]), a[2])
    /\ Has(Get(Get(metrics, a[1]), a[2]), a[3])
    /\ Has(Get(Get(Get(metrics, a[1]), a[2]), a[3]), a[4])

RecordAt(metrics, a) == Get(Get(Get(Get(metrics, a[1]), a[2]), a[3]), a[4])

\* no key occurs twice in a dict
UniqueKeys(d) == \A i \in 1..Len(d) : \A j \in 1..Len(d) : d[i].k = d[j].k => i = j

\* no address of the metric store holds more than one record
OneRecordPerAddress(metrics) ==
    /\ UniqueKeys(metrics)
    /\ \A e \in 1..Len(metrics) :
          /\ UniqueKeys(metrics[e].v)
          /\ \A r \in 1..Len(metrics[e].v) :
                /\ UniqueKeys(metrics[e].v[r].v)
                /\ \A k \in 1..Len(metrics[e].v[r].v) :
                      UniqueKeys(metrics[e].v[r].v[k].v)

\* the address of a record
AddressOf(m) == <<m.experiment_id, m.run_id, m.key, m.step>>

\* C1: a write through log_metric / add_metric makes get_metrics at the written
\* address return the record with the value written, leaves what get_metrics
\* returns at every other address that holds a record as it was, and no
\* address ever holds more than one record.
C1_OverwriteLaw ==
    /\ [](OneRecordPerAddress(CurrentStores.metrics_store))
    /\ [][(NewCall /\ last'.op = "mlflow.log_metric" /\ last'.exc = NoExc) =>
            \A i \in AddCalls(last') :
                LET m == last'.trace[i].args[1]
                IN  \A a \in Addresses :
                        IF a = AddressOf(m)
                        THEN /\ Retrieve(a)'.t = "LoggedMetric"
                             /\ Retrieve(a)'.v.value = m.value
                        ELSE Holds(CurrentStores.metrics_store, a) =>
                                Retrieve(a)' = Retrieve(a)]_vars

\* C6: after log_metric with no explicit step under the active run r of
\* experiment e, get_metrics(e, r, key, 0) returns the record and
\* export_to_dict lists the key of that run with a step 0.
C6_DefaultStepIsZero ==
    (last.op = "mlflow.log_metric" /\ last.exc = NoExc /\ last.args[3] = None) =>
        LET got == get_metrics(CurrentStores.metrics_store, active_run.experiment_id,
                               active_run.run_id, last.args[1], 0)
            doc == LoggedMetrics_export_to_dict(CurrentStores.metrics_store)
        IN  /\ got.t = "LoggedMetric"
            /\ got.v.value = last.args[2]
            /\ \E e \in 1..Len(doc) : \E r \in 1..Len(doc[e].runs) :
                \E k \in 1..Len(doc[e].runs[r].metrics) :
                \E s \in 1..Len(doc[e].runs[r].metrics[k].steps) :
                    /\ doc[e].experiment_id = active_run.experiment_id
                    /\ doc[e].runs[r].run_id = active_run.run_id
                    /\ doc[e].runs[r].metrics[k].key = last.args[1]
                    /\ doc[e].runs[r].metrics[k].steps[s].step = 0
                    /\ doc[e].runs[r].metrics[k].steps[s].value = last.args[2]

\* a supplied coordinate of a get_metrics call is absent at its level
AbsentInMetrics(metrics, e, r, k, s) ==
    \/ e # "None" /\ ~Has(metrics, e)
    \/ /\ e # "None" /\ Has(metrics, e)
       /\ r # None /\ ~Has(Get(metrics, e), r)
    \/ /\ e # "None" /\ Has(metrics, e)
       /\ r # None /\ Has(Get(metrics, e), r)
       /\ k # "None" /\ ~Has(Get(Get(metrics, e), r), k)
    \/ /\ e # "None" /\ Has(metrics, e)
       /\ r # None /\ Has(Get(metrics, e), r)
       /\ k # "None" /\ Has(Get(Get(metrics, e), r), k)
       /\ s # None /\ ~Has(Get(Get(Get(metrics, e), r), k), s)

\* a supplied coordinate of a get_params call is absent at its level
AbsentInParams(params, e, r, k) ==
    \/ e # "None" /\ ~Has(params, e)
    \/ /\ e # "None" /\ Has(params, e)
       /\ r # None /\ ~Has(Get(params, e), r)
    \/ /\ e # "None" /\ Has(params, e)
       /\ r # None /\ Has(Get(params, e), r)
       /\ k # "None" /\ ~Has(Get(Get(params, e), r), k)

\* None or an empty container
IsEmptyResult(x) == x.t = "None" \/ (x.t \in {"list", "dict"} /\ Len(x.v) = 0)

\* C9: get_metrics and get_params called with a coordinate that is absent at
\* its level return None or an empty result and do not raise.
C9_AbsentCoordinateGivesEmpty ==
    /\ (/\ last.op = "get_metrics"
        /\ AbsentInMetrics(CurrentStores.metrics_store, last.args[1], last.args[2],
                           last.args[3], last.args[4])) =>
            (last.exc = NoExc /\ IsEmptyResult(last.ret))
    /\ (/\ last.op = "get_params"
        /\ AbsentInParams(CurrentStores.param_store, last.args[1], last.args[2],
                          last.args[3])) =>
            (last.exc = NoExc /\ IsEmptyResult(last.ret))

\* C10: aggregate with method mean, max or min at an address that holds a
\* record with value v returns v.
C10_AggregateOfOneRecord ==
    (/\ last.op = "aggregate"
     /\ last.args[5] \in {"mean", "max", "min"}
     /\ Holds(CurrentStores.metrics_store,
              <<last.args[1], last.args[2], last.args[3], last.args[4]>>)) =>
        /\ last.exc = NoExc
        /\ last.ret.t = "number"
        /\ last.ret.v = RecordAt(CurrentStores.metrics_store,
                <<last.args[1], last.args[2], last.args[3], last.args[4]>>).value

----------------------------------------------------------------------------
(* Properties of the artifact export, under SpecExport *)

Uploads(call) == {i \in 1..Len(call.trace) : call.trace[i].f = "mlflow.log_artifact"}

Writes(call) == {i \in 1..Len(call.trace) : call.trace[i].f = "json.dump"}

\* the path base_path/experiment_id/run_id of an export call
PathOf(call) == LogPath(call.args[1], call.args[2], call.args[3])

\* export_logs_as_artifact is called again with the same path under the same
\* run, the call before it having been an export that completed
SecondExport ==
    /\ last.op = "export_logs_as_artifact"
    /\ last.exc = NoExc
    /\ NewCall
    /\ last'.op = "export_logs_as_artifact"
    /\ last'.args = last.args

C8_TemporaryFileRemoved ==
    (last.op = "export_logs_as_artifact" /\ Writes(last) # {}) =>
        PathOf(last) \notin files

----------------------------------------------------------------------------
(* Properties of aggregate, under SpecStore *)

AggregationMethods == {"mean", "max", "min"}

\* the address an aggregate call was given
AggregateAddress(call) == <<call.args[1], call.args[2], call.args[3], call.args[4]>>

\* C11: aggregate with method mean, max or min at an address that holds no
\* record returns None and does not raise, whichever of experiment, run, key
\* and step is the absent coordinate.
C11_AggregateOfNoRecord ==
    (/\ last.op = "aggregate"
     /\ last.args[5] \in AggregationMethods
     /\ ~Holds(CurrentStores.metrics_store, AggregateAddress(last))) =>
        (last.exc = NoExc /\ last.ret.t = "None")

\* C12: aggregate with a method other than mean, max and min fails with the
\* unsupported-aggregation error (ValueError) at every address, with or without
\* a record, and leaves the stores as they were.
C12_UnknownMethodRejected ==
    [][(NewCall /\ last'.op = "aggregate" /\ last'.args[5] \notin AggregationMethods) =>
          /\ last'.exc = "ValueError"
          /\ CurrentStores' = CurrentStores]_vars

----------------------------------------------------------------------------
(* Properties of the metric exports, under SpecTables *)

\* the leaves of an export_to_dict() document, in traversal order, each with
\* the experiment_id, run_id and key of the levels above it
LeavesOfKey(exp, run, metric) ==
    [s \in 1..Len(metric.steps) |->
        [experiment_id |-> exp.experiment_id,
         run_id |-> run.run_id,
         key |-> metric.key,
         step |-> metric.steps[s].step,
         value |-> metric.steps[s].value,
         timestamp |-> metric.steps[s].timestamp]]

LeavesOfRun(exp, run) ==
    Flatten([k \in 1..Len(run.metrics) |-> LeavesOfKey(exp, run, run.metrics[k])])

LeavesOfExperiment(exp) ==
    Flatten([r \in 1..Len(exp.runs) |-> LeavesOfRun(exp, exp.runs[r])])

Leaves(doc) == Flatten([e \in 1..Len(doc) |-> LeavesOfExperiment(doc[e])])

RowAddress(row) == <<row.experiment_id, row.run_id, row.key, row.step>>

\* the rows are, one for one, the addresses of the store that hold a record
OneRowPerLeaf(rows, metrics) ==
    /\ \A i \in 1..Len(rows) : \A j \in 1..Len(rows) :
            RowAddress(rows[i]) = RowAddress(rows[j]) => i = j
    /\ {RowAddress(rows[i]) : i \in 1..Len(rows)} = {a \in Addresses : Holds(metrics, a)}

C14_StepsListOrderedByStep ==
    last.op = "export_to_dict" =>
        \A e \in 1..Len(last.ret.v) :
            \A r \in 1..Len(last.ret.v[e].runs) :
                \A k \in 1..Len(last.ret.v[e].runs[r].metrics) :
                    LET steps == last.ret.v[e].runs[r].metrics[k].steps
                    IN  \A i \in 1..Len(steps) : \A j \in i..Len(steps) :
                            (steps[i].step # None /\ steps[j].step # None) =>
                                steps[i].step <= steps[j].step

----------------------------------------------------------------------------
(* Properties of the batch entry point, under Spec *)

\* the records a call stored, in the order it stored them
RecordsOf(call) ==
    LET adds == {i \in 1..Len(call.trace) : call.trace[i].f = "add_metric"}
    IN  [n \in 1..Cardinality(adds) |->
            call.trace[CHOOSE i \in adds :
                          Cardinality({j \in adds : j <= i}) = n].args[1]]

\* C15: a log_metrics(mapping, step) call that returns calls the original batch
\* function once, first, then stores one record per entry of the mapping, and
\* these records all carry the same step, the same run_id and the same
\* timestamp, also when no timestamp is passed and the clock advances during
\* the call.
C15_BatchRecordsShareStamp ==
    (last.op = "mlflow.log_metrics" /\ last.exc = NoExc /\ loggers["mlflow"] # 0) =>
        LET recs == RecordsOf(last)
        IN  /\ OrigCalls(last) = {1}
            /\ Len(last.trace) = 1 + Len(last.args[1])
            /\ Len(recs) = Len(last.args[1])
            /\ \A i \in 1..Len(recs) :
                    /\ recs[i].key = last.args[1][i].k
                    /\ recs[i].value = last.args[1][i].v
                    /\ recs[i].step = recs[1].step
                    /\ recs[i].run_id = recs[1].run_id
                    /\ recs[i].timestamp = recs[1].timestamp

----------------------------------------------------------------------------
(* Properties of explicit run_id and timestamp arguments, under SpecArgs *)

\* C16: mlflow.log_metrics(metrics, step, synchronous, run_id=R, timestamp=T)
\* and mlflow.log_metric(key, value, step, synchronous, timestamp=T, run_id=R)
\* pass R as run_id and T as timestamp to the original function, and the
\* records they store have run_id R and timestamp T.
C16_RunIdAndTimestampMirrored ==
    /\ (/\ last.op = "mlflow.log_metrics"
        /\ last.args[4] # None
        /\ last.args[5] # None
        /\ last.trace # <<>>) =>
            /\ last.trace[1].f = "original_mlflow_log_metrics"
            /\ last.trace[1].args[4] = last.args[4]
            /\ last.trace[1].args[5] = last.args[5]
            /\ \A i \in 1..Len(RecordsOf(last)) :
                    /\ RecordsOf(last)[i].run_id = last.args[4]
                    /\ RecordsOf(last)[i].timestamp = last.args[5]
    /\ (/\ last.op = "mlflow.log_metric"
        /\ last.args[5] # None
        /\ last.args[6] # None
        /\ last.trace # <<>>) =>
            /\ last.trace[1].f = "original_mlflow_log_metric"
            /\ last.trace[1].args[5] = last.args[5]
            /\ last.trace[1].args[6] = last.args[6]
            /\ \A i \in 1..Len(RecordsOf(last)) :
                    /\ RecordsOf(last)[i].run_id = last.args[6]
                    /\ RecordsOf(last)[i].timestamp = last.args[5]

----------------------------------------------------------------------------
(* Properties of export_logs_to_dict, under SpecJoin *)

RunPairs == Experiments \X Runs

\* the (experiment_id, run_id) pairs under which a store holds data
RunsOf(store) == {p \in RunPairs : Has(store, p[1]) /\ Has(Get(store, p[1]), p[2])}

\* the combined records of a run in an export_logs_to_dict() result
CombinedOf(logs, p) ==
    {i \in 1..Len(logs) : logs[i].experiment_id = p[1] /\ logs[i].run_id = p[2]}

\* C17: export_logs_to_dict() gives exactly one combined record for every
\* (experiment_id, run_id) that has data in the metric store or in the
\* parameter store, a run with parameters only included.
C17_OneRecordPerRunOfEitherStore ==
    last.op = "export_logs_to_dict" =>
        \A p \in RunPairs :
            Cardinality(CombinedOf(last.ret.v, p)) =
                IF p \in RunsOf(CurrentStores.metrics_store)
                          \cup RunsOf(CurrentStores.param_store)
                THEN 1 ELSE 0

\* the {key, value} pairs recorded for a run in the parameter store
RecordedParams(params, p) ==
    IF p \in RunsOf(params)
    THEN LET run_data == Get(Get(params, p[1]), p[2])
         IN  {[key |-> run_data[i].k, value |-> run_data[i].v.value] :
                 i \in 1..Len(run_data)}
    ELSE {}

\* C18: export_logs_to_dict() does not fail; a run with metrics and no recorded
\* parameters appears with params = [], and a run with both appears with
\* exactly the parameters recorded for its (experiment_id, run_id), each once,
\* and none of another run.
C18_ParamsOfTheRunOnly ==
    last.op = "export_logs_to_dict" =>
        /\ last.exc = NoExc
        /\ \A p \in RunsOf(CurrentStores.metrics_store) :
              /\ Cardinality(CombinedOf(last.ret.v, p)) = 1
              /\ \A i \in CombinedOf(last.ret.v, p) :
                    LET params == last.ret.v[i].params
                        recorded == RecordedParams(CurrentStores.param_store, p)
                    IN  /\ {params[j] : j \in 1..Len(params)} = recorded
                        /\ Len(params) = Cardinality(recorded)
                        /\ recorded = {} => params = <<>>

\* the export of a run with metrics and no parameters, made while the
\* parameter store holds parameters of another run
C18_Witness ==
    /\ last.op = "export_logs_to_dict"
    /\ CurrentStores.param_store # <<>>
    /\ \E i \in 1..Len(last.ret.v) :
          /\ last.ret.v[i].params = <<>>
          /\ last.ret.v[i].metrics # <<>>

----------------------------------------------------------------------------
(* Properties of logging outside a run, under Spec *)

\* a log_param or log_metric call without explicit ids
WithoutIds(call) ==
    \/ call.op = "mlflow.log_param"
    \/ call.op = "mlflow.log_metric" /\ call.args[6] = None

----------------------------------------------------------------------------
(* Properties of the parameter store, under SpecParams *)

ParamCoordinates == Experiments \X Runs \X Keys

\* what get_params gives at a coordinate of the registered logger's store
RetrieveParam(c) == get_params(CurrentStores.param_store, c[1], c[2], c[3])

\* the coordinate holds a record
HoldsParam(params, c) ==
    /\ Has(params, c[1])
    /\ Has(Get(params, c[1]), c[2])
    /\ Has(Get(Get(params, c[1]), c[2]), c[3])

\* the values the parameter export lists for a coordinate, one per listing
ListedParams(doc, c) ==
    Flatten([e \in 1..Len(doc) |->
        Flatten([r \in 1..Len(doc[e].runs) |->
            Flatten([k \in 1..Len(doc[e].runs[r].parameters) |->
                IF /\ doc[e].experiment_id = c[1]
                   /\ doc[e].runs[r].run_id = c[2]
                   /\ doc[e].runs[r].parameters[k].key = c[3]
                THEN <<doc[e].runs[r].parameters[k].value>>
                ELSE <<>>])])])

\* each coordinate holds at most one record, get_params at a coordinate that
\* holds one returns it, and the export lists it once, with its value
OneParamPerCoordinate ==
    LET params == CurrentStores.param_store
        doc == LoggedParams_export_to_dict(params)
    IN  /\ UniqueKeys(params)
        /\ \A e \in 1..Len(params) :
              /\ UniqueKeys(params[e].v)
              /\ \A r \in 1..Len(params[e].v) : UniqueKeys(params[e].v[r].v)
        /\ \A c \in ParamCoordinates :
              IF HoldsParam(params, c)
              THEN /\ RetrieveParam(c).t = "LoggedParam"
                   /\ ListedParams(doc, c) = <<RetrieveParam(c).v.value>>
              ELSE ListedParams(doc, c) = <<>>
        /\ (last.op = "get_params" /\ HoldsParam(params, last.args)) =>
              last.ret = RetrieveParam(last.args)
        /\ last.op = "params.export_to_dict" => last.ret.v = doc

\* C20: the parameter store is last-write-wins: each (experiment_id, run_id,
\* key) holds at most one record, get_params there returns the value of the
\* last write to it (a write sets the value at its coordinate and leaves every
\* other coordinate as it was), and the parameter export lists the key once
\* for the run.
C20_ParamLastWriteWins ==
    /\ []OneParamPerCoordinate
    /\ [][(NewCall /\ last'.op = "mlflow.log_param" /\ last'.exc = NoExc) =>
            \A i \in AddCalls(last') :
                LET p == last'.trace[i].args[1]
                IN  \A c \in ParamCoordinates :
                        IF c = <<p.experiment_id, p.run_id, p.key>>
                        THEN /\ RetrieveParam(c)'.t = "LoggedParam"
                             /\ RetrieveParam(c)'.v.value = last'.args[2]
                        ELSE /\ HoldsParam(CurrentStores.param_store, c)' =
                                    HoldsParam(CurrentStores.param_store, c)
                             /\ HoldsParam(CurrentStores.param_store, c) =>
                                    RetrieveParam(c)' = RetrieveParam(c)]_vars

\* a key was written again after the other key of the run had been written:
\* it is still the first of the run's two keys and has the value last written
C20_Witness ==
    /\ last.op = "mlflow.log_param"
    /\ last.exc = NoExc
    /\ active_run # NoRun
    /\ HoldsParam(CurrentStores.param_store,
                  <<active_run.experiment_id, active_run.run_id, last.args[1]>>)
    /\ LET run_data == Get(Get(CurrentStores.param_store, active_run.experiment_id),
                           active_run.run_id)
       IN  /\ Len(run_data) = 2
           /\ run_data[1].k = last.args[1]
           /\ run_data[1].v.value = last.args[2]

----------------------------------------------------------------------------
(* Properties of an unavailable logger, under Spec *)

\* no logger can be made for the name: it is not a backend name, or the
\* import of its backend failed
Unavailable(name) ==
    /\ ~(name = "mlflow" /\ mlflow_available)
    /\ ~(name = "wandb" /\ wandb_available)

\* C21: get_logger(name) for a name whose backend is unavailable, or for an
\* unknown name, returns None without raising and leaves the registry as it
\* was: no entry for that name, the entries of the other names untouched.
C21_UnavailableGivesNone ==
    /\ [](\A n \in Names : Unavailable(n) => loggers[n] = 0)
    /\ [][(NewCall /\ last'.op = "get_logger" /\ Unavailable(last'.args[1])) =>
            /\ last'.ret = PyNone
            /\ last'.exc = NoExc
            /\ loggers' = loggers
            /\ heap' = heap]_vars

\* get_logger gave None for an unavailable name while the mlflow logger is
\* registered and holds records
C21_Witness ==
    /\ last.op = "get_logger"
    /\ Unavailable(last.args[1])
    /\ last.ret = PyNone
    /\ loggers["mlflow"] # 0
    /\ CurrentStores.metrics_store # <<>>

----------------------------------------------------------------------------
(* Properties of the filing of records, under SpecArgs *)

\* the (experiment_id, run_id) pairs of the tracking backend
BackendRuns == {<<RunExperiment(r), r>> : r \in Runs}

\* the (experiment_id, run_id) pairs under which the metric store has entries
FiledRuns(metrics) ==
    UNION {{<<metrics[e].k, metrics[e].v[r].k>> : r \in 1..Len(metrics[e].v)} :
              e \in 1..Len(metrics)}

\* C22: every record of the metric store is filed under the experiment of its
\* run: a log_metric / log_metrics call given an explicit run_id other than
\* the active run's stores its records under the experiment of that run_id,
\* so the store has no (experiment_id, run_id) pair the backend does not have.
C22_FiledUnderExperimentOfRun ==
    /\ FiledRuns(CurrentStores.metrics_store) \subseteq BackendRuns
    /\ (/\ last.op = "mlflow.log_metric"
        /\ last.args[6] \in Runs
        /\ last.args[6] # active_run.run_id) =>
            \A i \in 1..Len(RecordsOf(last)) :
                RecordsOf(last)[i].experiment_id = RunExperiment(last.args[6])
    /\ (/\ last.op = "mlflow.log_metrics"
        /\ last.args[4] \in Runs
        /\ last.args[4] # active_run.run_id) =>
            \A i \in 1..Len(RecordsOf(last)) :
                RecordsOf(last)[i].experiment_id = RunExperiment(last.args[4])

----------------------------------------------------------------------------
(* Properties of the read operations, under SpecReads *)

ReadOps == {"get_metrics", "get_params", "aggregate", "export_to_dict",
            "export_to_dataframe", "export_logs_to_dict", "params.export_to_dict"}

\* the exports of the registered logger's stores
CurrentExports ==
    [metrics |-> LoggedMetrics_export_to_dict(CurrentStores.metrics_store),
     params |-> LoggedParams_export_to_dict(CurrentStores.param_store),
     rows |-> LoggedMetrics_export_to_dataframe(CurrentStores.metrics_store)]

\* C23: get_metrics, get_params, aggregate, export_to_dict,
\* export_to_dataframe and export_logs_to_dict leave the metric store and the
\* parameter store as they were, for any arguments: a lookup of an absent
\* experiment, run, key or step creates no empty entry, and the exports after
\* the read equal the exports before it.
C23_ReadsLeaveStoresUnchanged ==
    [][(NewCall /\ last'.op \in ReadOps) =>
          /\ CurrentStores' = CurrentStores
          /\ CurrentExports' = CurrentExports]_vars

\* the coordinates given to a lookup, None where the call has none
LookupArgs(call) ==
    IF call.op = "get_params"
    THEN <<call.args[1], call.args[2], call.args[3], None>>
    ELSE <<call.args[1], call.args[2], call.args[3], call.args[4]>>

\* a lookup or an aggregate was made with an experiment, run, key and step
\* given, at an address of a non-empty store that holds no record
C23_Witness ==
    /\ last.op \in {"get_metrics", "aggregate"}
    /\ CurrentStores.metrics_store # <<>>
    /\ LookupArgs(last)[1] # "None"
    /\ LookupArgs(last)[2] # None
    /\ LookupArgs(last)[3] # "None"
    /\ LookupArgs(last)[4] # None
    /\ ~Holds(CurrentStores.metrics_store, LookupArgs(last))
    /\ nops = MaxOps

----------------------------------------------------------------------------
(* Properties of the registry under threads, under SpecThreads *)

\* the threads that hold a logger returned by get_logger(name)
Holders(name) ==
    {t \in Threads : threads[t].pc = "done" /\ threads[t].name = name
                        /\ threads[t].logger # 0}

\* C24: a logger is created at most once per name also when the get_logger
\* calls of two threads interleave between the membership test and the
\* insert: both callers hold the same instance, and the records logged
\* through the logger of one are in the store of the logger of the other.
C24_OneInstanceAcrossThreads ==
    /\ Len(heap) <= Cardinality({n \in Names : loggers[n] # 0})
    /\ \A t1 \in Holders("mlflow") : \A t2 \in Holders("mlflow") :
          /\ threads[t1].logger = threads[t2].logger
          /\ heap[threads[t1].logger].metrics_store =
                heap[threads[t2].logger].metrics_store

====
